---------------------------- MODULE Spec2Model ----------------------------
(***************************************************************************)
(* Model of the Product catalog test harness:                              *)
(*   - features/steps/web_steps.py : the behave step definitions that      *)
(*     drive a browser page (fields, buttons, dropdowns, results table);   *)
(*   - tests/test_routes.py        : the unittest suite run against the    *)
(*     /products REST resource.                                            *)
(* Strings are sequences of one-character strings, so that lower(),        *)
(* replace(), strip(), "in" and float() are computed, not assumed.         *)
(***************************************************************************)
EXTENDS Integers, Sequences, FiniteSets, TLC

VARIABLES
    loaded,     \* the browser shows the home page (context.driver.get done)
    dom,        \* element id -> value attribute of the page's form elements
    pending,    \* the page has asynchronous work in flight (fetch, render)
    flash,      \* text of the element with id flash_message
    rows,       \* the tr rows inside the element with id search_results
    clipboard,  \* context.clipboard: None until a copy step has run
    pc,         \* "ready" | "waiting" | "failed": position of the scenario
    cur,        \* the step in progress, or the last step run
    polls,      \* sleeps taken by the WebDriverWait in progress (or timed out)
    observed,   \* what the current step last read from the page
    lookup,     \* the identifier handed to the last find_element(By.ID, ..)
    copied,     \* history: value of the copied field when the copy step read it
    store,      \* the service's database: the stored products
    nextId,     \* next identifier the database assigns
    tphase,     \* "idle" | "body": position of the unittest runner
    tname,      \* the test case being run
    reqs,       \* requests issued so far by the body of the test case
    resp,       \* last HTTP response received by the test client
    swept,      \* history: products in the store when the last setUp began
    hist        \* history of the current test body: products created, ids
                \* deleted, and whether the last request's id was in the store

uiVars   == <<loaded, dom, pending, flash, rows, clipboard, pc, cur, polls,
             observed, lookup, copied>>
httpVars == <<store, nextId, tphase, tname, reqs, resp, swept, hist>>
vars     == <<loaded, dom, pending, flash, rows, clipboard, pc, cur, polls,
             observed, lookup, copied, store, nextId, tphase, tname, reqs, resp,
             swept, hist>>

-----------------------------------------------------------------------------
(* Bounds of the model *)

MaxValLen  == 2     \* longest field value / step text
MaxNameLen == 2     \* longest field name or button label of the naming check
WaitPolls  == 1     \* context.wait_seconds, in poll intervals

-----------------------------------------------------------------------------
(* Python string operations used by the steps *)

\* str.lower() on the characters of the model
LowerOf == ("A" :> "a") @@ ("I" :> "i") @@ ("D" :> "d") @@ ("T" :> "t")
           @@ ("F" :> "f") @@ ("X" :> "x")

LowerChar(c) == IF c \in DOMAIN LowerOf THEN LowerOf[c] ELSE c

Lower(s) == [i \in 1..Len(s) |-> LowerChar(s[i])]

\* str.replace(old, new) for one-character old and new
Replace(s, old, new) == [i \in 1..Len(s) |-> IF s[i] = old THEN new ELSE s[i]]

\* Python's  sub in s
Contains(sub, s) ==
    \E i \in 0..(Len(s) - Len(sub)) : SubSeq(s, i + 1, i + Len(sub)) = sub

\* all sequences over S of length lo..hi
SeqsOf(S, lo, hi) == UNION {[1..n -> S] : n \in lo..hi}


-----------------------------------------------------------------------------
(* The page under test: the form elements the steps address *)

Chars    == {"x"}
Values   == SeqsOf(Chars, 0, MaxValLen)     \* field values and step texts

\* an attribute that may be missing: None, or Some(v)
None    == <<>>
Some(v) == <<v>>

\* what a condition or an assertion read from the page: nothing yet, no such
\* element, or the text of the element (and, for a table cell, its tr row)
NotRead           == [read |-> FALSE, found |-> FALSE, text |-> <<>>, row |-> 0]
Absent            == [read |-> TRUE,  found |-> FALSE, text |-> <<>>, row |-> 0]
ReadText(t)       == [read |-> TRUE,  found |-> TRUE,  text |-> t,    row |-> 0]
ReadCell(row, t)  == [read |-> TRUE,  found |-> TRUE,  text |-> t,    row |-> row]
RowOnly(row)      == [read |-> FALSE, found |-> TRUE,  text |-> <<>>, row |-> row]

ID_PREFIX == <<"p", "r", "o", "d", "u", "c", "t", "_">>
BTN       == <<"-", "b", "t", "n">>

InputIds  == {ID_PREFIX \o <<"a">>, ID_PREFIX \o <<"a", "_">>}
SelectIds == {ID_PREFIX \o <<"a", "a">>}
FieldIds  == InputIds \cup SelectIds
ButtonIds == {<<"a">> \o BTN}

\* the option elements of the page's dropdowns: visible text and value attribute
Options == {[text |-> <<"X">>, value |-> <<"x">>],
            [text |-> <<"X", "X">>, value |-> <<"x", "x">>]}
FirstOption == [text |-> <<"X">>, value |-> <<"x">>]

\* field names, button labels and texts a scenario uses
ScenarioNames   == {<<"A">>, <<"a", " ">>, <<"A", "a">>, <<" ">>}
ScenarioButtons == {<<"A">>, <<" ">>}
OptionTexts     == {<<"X">>, <<"X", "X">>, <<"x">>}

\* field names and button labels of the naming check
NameChars == {"A", "a", " "}
AllNames  == SeqsOf(NameChars, 1, MaxNameLen)

Step(op, name, arg, n) == [op |-> op, name |-> name, arg |-> arg, n |-> n, col |-> ""]
NoStep == Step("none", <<>>, <<>>, 0)

\* the element is in the document
Present(id) == loaded /\ id \in FieldIds \cup ButtonIds

\* element_id = ID_PREFIX + element_name.lower().replace(' ', '_')
ElementIdNoLower(element_name) == ID_PREFIX \o Replace(element_name, " ", "_")
ElementId(element_name) == ID_PREFIX \o Replace(Lower(element_name), " ", "_")

\* button_id = button.lower().replace(' ', '_') + '-btn'
ButtonIdPrefixed(button) == ID_PREFIX \o Replace(Lower(button), " ", "_") \o BTN
ButtonId(button) == Replace(Lower(button), " ", "_") \o BTN

\* element.clear() and element.send_keys(keys) on the value of a text input
ClearKeeps(v) == v
Clear(v) == <<>>
SendKeys(v, keys) == v \o keys

\* element.get_attribute('value')
GetText(id) == <<>>
GetValue(id) == dom[id]

\* a step that ran to its end (passed) or raised (failed)
Finish(ok) == pc' = IF ok THEN "ready" ELSE "failed"

-----------------------------------------------------------------------------
(* Steps without a wait *)

\* @when('I visit the "Home Page"')
Visit ==
    /\ pc = "ready"
    /\ loaded' = TRUE
    /\ dom' = [id \in FieldIds |-> IF id \in SelectIds THEN FirstOption.value ELSE <<>>]
    /\ pending' = TRUE
    /\ flash' = <<>>
    /\ rows' = <<>>
    /\ cur' = Step("visit", <<>>, <<>>, 0)
    /\ Finish(TRUE)
    /\ observed' = NotRead
    /\ UNCHANGED <<clipboard, polls, lookup, copied>>
    /\ UNCHANGED httpVars

\* @when('I set the "{element_name}" to "{text_string}"')
SetField(element_name, text_string) ==
    LET element_id == ElementId(element_name) IN
    /\ pc = "ready"
    /\ cur' = Step("set", element_name, text_string, 0)
    /\ lookup' = element_id
    /\ IF Present(element_id) /\ element_id \in InputIds
         THEN /\ dom' = [dom EXCEPT ![element_id] = SendKeys(Clear(@), text_string)]
              /\ Finish(TRUE)
         ELSE /\ dom' = dom
              /\ Finish(FALSE)
    /\ observed' = NotRead
    /\ UNCHANGED <<loaded, pending, flash, rows, clipboard, polls, copied>>
    /\ UNCHANGED httpVars

\* @when('I select "{text}" in the "{element_name}" dropdown')
SelectOption(text, element_name) ==
    LET element_id == ElementId(element_name) IN
    /\ pc = "ready"
    /\ cur' = Step("select", element_name, text, 0)
    /\ lookup' = element_id
    /\ IF Present(element_id) /\ element_id \in SelectIds
            /\ \E o \in Options : o.text = text
         THEN /\ dom' = [dom EXCEPT ![element_id] =
                            (CHOOSE o \in Options : o.text = text).value]
              /\ Finish(TRUE)
         ELSE /\ dom' = dom
              /\ Finish(FALSE)
    /\ observed' = NotRead
    /\ UNCHANGED <<loaded, pending, flash, rows, clipboard, polls, copied>>
    /\ UNCHANGED httpVars

\* @then('I should see "{text}" in the "{element_name}" dropdown')
SeeDropdown(text, element_name) ==
    LET element_id == ElementId(element_name) IN
    /\ pc = "ready"
    /\ cur' = Step("dropdown", element_name, text, 0)
    /\ lookup' = element_id
    /\ Finish(/\ Present(element_id)
              /\ element_id \in SelectIds
              /\ \E o \in Options : o.value = dom[element_id] /\ o.text = text)
    /\ observed' = NotRead
    /\ UNCHANGED <<loaded, dom, pending, flash, rows, clipboard, polls, copied>>
    /\ UNCHANGED httpVars

\* @then('the "{element_name}" field should be empty')
FieldEmpty(element_name) ==
    LET element_id == ElementId(element_name) IN
    /\ pc = "ready"
    /\ cur' = Step("empty", element_name, <<>>, 0)
    /\ lookup' = element_id
    /\ Finish(Present(element_id) /\ GetValue(element_id) = <<>>)
    /\ observed' = NotRead
    /\ UNCHANGED <<loaded, dom, pending, flash, rows, clipboard, polls, copied>>
    /\ UNCHANGED httpVars

\* @when('I press the "{button}" button')
Press(button) ==
    LET button_id == ButtonId(button) IN
    /\ pc = "ready"
    /\ cur' = Step("press", button, <<>>, 0)
    /\ lookup' = button_id
    /\ IF Present(button_id) /\ button_id \in ButtonIds
         THEN pending' = TRUE /\ Finish(TRUE)
         ELSE pending' = pending /\ Finish(FALSE)
    /\ observed' = NotRead
    /\ UNCHANGED <<loaded, dom, flash, rows, clipboard, polls, copied>>
    /\ UNCHANGED httpVars

-----------------------------------------------------------------------------
(* Steps with a bounded wait: WebDriverWait(driver, wait_seconds).until(cond) *)

\* Entering a step that waits: the identifier is derived, the wait begins.
StartWait(op, name, arg, id) ==
    /\ pc = "ready"
    /\ pc' = "waiting"
    /\ cur' = Step(op, name, arg, 0)
    /\ lookup' = id
    /\ polls' = 0
    /\ observed' = NotRead
    /\ UNCHANGED <<loaded, dom, pending, flash, rows, clipboard, copied>>
    /\ UNCHANGED httpVars

\* One turn of until()'s loop: evaluate the condition; a true value ends the
\* wait and the rest of the step runs (proceed); otherwise sleep one poll
\* interval and raise TimeoutException once the wait time has elapsed.
UntilNeverExpires(cond, proceed) ==
    IF cond THEN proceed /\ polls' = 0
    ELSE /\ polls' = IF polls < WaitPolls THEN polls + 1 ELSE polls
         /\ pc' = "waiting"
         /\ UNCHANGED <<dom, clipboard, copied>>
Until(cond, proceed) ==
    IF cond THEN proceed /\ polls' = 0
    ELSE /\ polls' = polls + 1
         /\ pc' = IF polls + 1 > WaitPolls THEN "failed" ELSE "waiting"
         /\ UNCHANGED <<dom, clipboard, copied>>

\* expected_conditions.presence_of_element_located((By.ID, element_id))
PresenceOfElementLocated(id) == Present(id)

\* expected_conditions.text_to_be_present_in_element_value(locator, text_)
TextEqualsElementValue(id, text) == Present(id) /\ text = GetValue(id)
TextToBePresentInElementValue(id, text) == Present(id) /\ Contains(text, GetValue(id))

\* expected_conditions.text_to_be_present_in_element(locator, text_)
TextToBePresentInElement(elementText, text) == loaded /\ Contains(text, elementText)

\* @when('I copy the "{element_name}" field')
StartCopy(element_name) ==
    StartWait("copy", element_name, <<>>, ElementId(element_name))

PollCopy ==
    /\ pc = "waiting" /\ cur.op = "copy"
    /\ Until(PresenceOfElementLocated(lookup),
             /\ clipboard' = Some(GetValue(lookup))
             /\ copied' = Some(dom[ElementId(cur.name)])
             /\ dom' = dom
             /\ Finish(TRUE))
    /\ UNCHANGED <<loaded, pending, flash, rows, cur, observed, lookup>>
    /\ UNCHANGED httpVars

\* @when('I paste the "{element_name}" field')
StartPaste(element_name) ==
    StartWait("paste", element_name, <<>>, ElementId(element_name))

\* a paste that reads context.clipboard before it clears the field
PollPasteReadsFirst ==
    /\ pc = "waiting" /\ cur.op = "paste"
    /\ Until(PresenceOfElementLocated(lookup),
             /\ IF lookup \notin InputIds \/ clipboard = None
                  THEN dom' = dom /\ Finish(FALSE)
                  ELSE /\ dom' = [dom EXCEPT ![lookup] = SendKeys(Clear(@), clipboard[1])]
                       /\ Finish(TRUE)
             /\ UNCHANGED <<clipboard, copied>>)
    /\ UNCHANGED <<loaded, pending, flash, rows, cur, observed, lookup>>
    /\ UNCHANGED httpVars

\* element.clear() runs before context.clipboard is read: with no clipboard
\* the AttributeError is raised on an already cleared field.  clear() on an
\* element that is not a text input raises and nothing is written.
PollPaste ==
    /\ pc = "waiting" /\ cur.op = "paste"
    /\ Until(PresenceOfElementLocated(lookup),
             /\ IF lookup \notin InputIds
                  THEN dom' = dom /\ Finish(FALSE)
                  ELSE IF clipboard = None
                  THEN /\ dom' = [dom EXCEPT ![lookup] = Clear(@)]
                       /\ Finish(FALSE)
                  ELSE /\ dom' = [dom EXCEPT ![lookup] = SendKeys(Clear(@), clipboard[1])]
                       /\ Finish(TRUE)
             /\ UNCHANGED <<clipboard, copied>>)
    /\ UNCHANGED <<loaded, pending, flash, rows, cur, observed, lookup>>
    /\ UNCHANGED httpVars

\* @then('I should see "{text_string}" in the "{element_name}" field')
StartSeeField(text_string, element_name) ==
    StartWait("see", element_name, text_string, ElementId(element_name))

PollSeeField ==
    /\ pc = "waiting" /\ cur.op = "see"
    /\ observed' = IF Present(lookup) THEN ReadText(GetValue(lookup)) ELSE Absent
    /\ Until(TextToBePresentInElementValue(lookup, cur.arg),
             /\ Finish(TRUE)
             /\ UNCHANGED <<dom, clipboard, copied>>)
    /\ UNCHANGED <<loaded, pending, flash, rows, cur, lookup>>
    /\ UNCHANGED httpVars

\* @when('I change "{element_name}" to "{text_string}"')
StartChange(element_name, text_string) ==
    StartWait("change", element_name, text_string, ElementId(element_name))

PollChange ==
    /\ pc = "waiting" /\ cur.op = "change"
    /\ Until(PresenceOfElementLocated(lookup),
             /\ IF lookup \in InputIds
                  THEN /\ dom' = [dom EXCEPT ![lookup] = SendKeys(Clear(@), cur.arg)]
                       /\ Finish(TRUE)
                  ELSE dom' = dom /\ Finish(FALSE)
             /\ UNCHANGED <<clipboard, copied>>)
    /\ UNCHANGED <<loaded, pending, flash, rows, cur, observed, lookup>>
    /\ UNCHANGED httpVars

FLASH_MESSAGE  == <<"f", "l", "a", "s", "h", "_", "m", "e", "s", "s", "a", "g", "e">>
SEARCH_RESULTS == <<"s", "e", "a", "r", "c", "h", "_", "r", "e", "s", "u", "l", "t", "s">>

\* @then('I should see the message "{message}"')
StartSeeMessage(message) ==
    StartWait("message", <<>>, message, FLASH_MESSAGE)

PollSeeMessage ==
    /\ pc = "waiting" /\ cur.op = "message"
    /\ observed' = IF loaded THEN ReadText(flash) ELSE Absent
    /\ Until(TextToBePresentInElement(flash, cur.arg),
             /\ Finish(TRUE)
             /\ UNCHANGED <<dom, clipboard, copied>>)
    /\ UNCHANGED <<loaded, pending, flash, rows, cur, lookup>>
    /\ UNCHANGED httpVars

-----------------------------------------------------------------------------
(* The results table: tr rows of th or td cells *)

MaxRows == 2     \* most tr rows of a results table

\* str.strip(): leading and trailing blanks removed
RECURSIVE LStrip(_)
LStrip(s) == IF s # <<>> /\ Head(s) = " " THEN LStrip(Tail(s)) ELSE s
RECURSIVE RStrip(_)
RStrip(s) == IF s # <<>> /\ s[Len(s)] = " " THEN RStrip(SubSeq(s, 1, Len(s) - 1)) ELSE s
Strip(s) == RStrip(LStrip(s))

\* sep.join(parts)
RECURSIVE Join(_, _)
Join(parts, sep) ==
    IF parts = <<>> THEN <<>>
    ELSE IF Len(parts) = 1 THEN parts[1]
    ELSE parts[1] \o sep \o Join(Tail(parts), sep)

\* float(s): blanks around the literal are ignored; digits with at most one
\* point and at least one digit; anything else raises ValueError (ok = FALSE).
\* The value is kept exactly, scaled by 10^FracDigits.
FracDigits == 4
DigitVal == ("0" :> 0) @@ ("1" :> 1) @@ ("5" :> 5) @@ ("9" :> 9)
RECURSIVE Pow10(_)
Pow10(n) == IF n = 0 THEN 1 ELSE 10 * Pow10(n - 1)
RECURSIVE DigitsToInt(_)
DigitsToInt(ds) ==
    IF ds = <<>> THEN 0
    ELSE 10 * DigitsToInt(SubSeq(ds, 1, Len(ds) - 1)) + DigitVal[ds[Len(ds)]]
ParseFloat(s) ==
    LET t      == Strip(s)
        points == {i \in 1..Len(t) : t[i] = "."}
        digits == SelectSeq(t, LAMBDA c : c # ".")
        frac   == IF points = {} THEN 0
                  ELSE Len(t) - (CHOOSE i \in points : TRUE)
    IN  IF /\ digits # <<>>
           /\ \A i \in 1..Len(digits) : digits[i] \in DOMAIN DigitVal
           /\ Cardinality(points) <= 1
           /\ frac <= FracDigits
        THEN [ok |-> TRUE, v |-> DigitsToInt(digits) * Pow10(FracDigits - frac)]
        ELSE [ok |-> FALSE, v |-> 0]

\* a tr element: th (header) cells or td (data) cells, each with its text
Row(th, cells) == [th |-> th, cells |-> cells]

\* row.text: the texts of the row's cells, as the browser renders them
RowText(row) == Join(row.cells, <<" ">>)

\* row_element.find_elements(By.TAG_NAME, 'td')
TdCells(row) == IF row.th THEN <<>> ELSE row.cells

\* table_element.text
TableText(rs) == Join([i \in 1..Len(rs) |-> RowText(rs[i])], <<"\n">>)

S_ID    == <<"I", "D">>
S_19_9  == <<"1", "9", ".", "9">>
S_19_90 == <<"1", "9", ".", "9", "0">>
S_True  == <<"T", "r", "u", "e">>
S_true  == <<"t", "r", "u", "e">>

HeaderRow == Row(TRUE,  <<S_ID, <<"N">>, <<"D">>, <<"P">>, <<"A">>, <<"C">>>>)
RowA      == Row(FALSE, <<<<"1">>, <<"a">>, <<"d">>, S_19_90, S_True, <<"c">>>>)
RowB      == Row(FALSE, <<<<"5">>, <<"A">>, <<" ", "d", " ">>, <<"5">>, S_true, <<"c">>>>)
RowShort  == Row(FALSE, <<<<"9">>, S_ID>>)

RowChoices == {HeaderRow, RowA, RowB, RowShort}
Tables     == SeqsOf(RowChoices, 0, MaxRows)

\* the tables the page renders in a scenario
ScenarioTables == {<<>>, <<HeaderRow, RowA>>}

\* inputs of the table steps
CellValues == {S_19_9, S_19_90, <<" ", "5">>, S_True, S_true,
               <<"a">>, <<"A">>, <<"d">>, <<" ", "d", " ">>, S_ID}
FieldNames == {"Id", "Name", "Description", "Price", "Available", "Category",
               "price"}
RowNums    == -1..(MaxRows + 1)
RowCounts  == 0..(MaxRows + 1)

\* the row-count step's test: actual_rows > 0 and 'ID' in rows[0].text
HeaderMarker == S_ID
HasHeaderNever(rs) == FALSE
HasHeader(rs) == Len(rs) > 0 /\ Contains(HeaderMarker, RowText(rs[1]))

\* a cell step that takes every tr for a data row
DataRowsAll(rs) == rs

\* the cell step's data_rows: all_rows[1:] if all_rows is non-empty and
\* 'ID' in all_rows[0].text, else all_rows
DataRows(rs) ==
    IF rs # <<>> /\ Contains(HeaderMarker, RowText(rs[1])) THEN Tail(rs) ELSE rs

\* actual_rows of the row-count step
ActualRows(rs) == IF HasHeader(rs) THEN Len(rs) - 1 ELSE Len(rs)

\* column_map.get(field_name): the 0-based column, or -1 for None
ColumnMap == [Id |-> 0, Name |-> 1, Description |-> 2, Price |-> 3,
              Available |-> 4, Category |-> 5]
ColumnIndex(field_name) ==
    IF field_name \in DOMAIN ColumnMap THEN ColumnMap[field_name] ELSE -1

\* Python's seq[i]: a negative index counts from the end; 0 stands for an
\* IndexError, otherwise the 1-based position of the element.
PyIndex(len, i) ==
    IF i >= 0 THEN (IF i < len THEN i + 1 ELSE 0)
    ELSE (IF len + i >= 0 THEN len + i + 1 ELSE 0)

\* the comparison at the end of the cell step
CellMatchesExact(field_name, cell_text, value) == cell_text = value
CellMatches(field_name, cell_text, value) ==
    IF field_name = "Price"
      THEN /\ ParseFloat(cell_text).ok
           /\ ParseFloat(value).ok
           /\ ParseFloat(cell_text).v = ParseFloat(value).v
    ELSE IF field_name = "Available"
      THEN Lower(cell_text) = Lower(value)
    ELSE cell_text = value

-----------------------------------------------------------------------------
(* Steps on the results table *)

\* @then('I should see "{name}" in the results')
StartSeeResults(name) ==
    StartWait("results", <<>>, name, SEARCH_RESULTS)

PollSeeResults ==
    /\ pc = "waiting" /\ cur.op = "results"
    /\ observed' = IF loaded THEN ReadText(TableText(rows)) ELSE Absent
    /\ Until(TextToBePresentInElement(TableText(rows), cur.arg),
             /\ Finish(TRUE)
             /\ UNCHANGED <<dom, clipboard, copied>>)
    /\ UNCHANGED <<loaded, pending, flash, rows, cur, lookup>>
    /\ UNCHANGED httpVars

\* @then('the "{table_name}" table should contain {num_rows:d} rows')
SeeRowCount(table_name, num_rows) ==
    /\ pc = "ready"
    /\ cur' = Step("count", table_name, <<>>, num_rows)
    /\ lookup' = SEARCH_RESULTS
    /\ observed' = NotRead
    /\ Finish(loaded /\ ActualRows(rows) = num_rows)
    /\ UNCHANGED <<loaded, dom, pending, flash, rows, clipboard, polls, copied>>
    /\ UNCHANGED httpVars

\* @then('I should see "{value}" in the "{field_name}" field of the {row_num:d}{nth} row')
SeeCell(value, field_name, row_num) ==
    LET column_index == ColumnIndex(field_name)
        all_rows     == rows
        data_rows    == DataRows(all_rows)
        at           == PyIndex(Len(data_rows), row_num - 1)
        cells        == TdCells(data_rows[at])
        located      == /\ column_index >= 0
                        /\ loaded
                        /\ Len(data_rows) >= row_num
                        /\ at # 0
        reached      == located /\ Len(cells) > column_index
        cell_text    == Strip(cells[column_index + 1])
    IN  /\ pc = "ready"
        /\ cur' = [Step("cell", <<>>, value, row_num) EXCEPT !.col = field_name]
        /\ lookup' = IF column_index >= 0 THEN SEARCH_RESULTS ELSE lookup
        /\ observed' = IF reached
                         THEN ReadCell(at + (Len(all_rows) - Len(data_rows)), cell_text)
                         ELSE IF located
                         THEN RowOnly(at + (Len(all_rows) - Len(data_rows)))
                         ELSE NotRead
        /\ Finish(reached /\ CellMatches(field_name, cell_text, value))
        /\ UNCHANGED <<loaded, dom, pending, flash, rows, clipboard, polls, copied>>
        /\ UNCHANGED httpVars

-----------------------------------------------------------------------------
(* The page's scripts and the scenario boundary *)

\* the page fills a form field (the result of a retrieve, a cleared form)
PageSetsField(id, v) ==
    /\ loaded /\ pending
    /\ id \in InputIds
    /\ dom' = [dom EXCEPT ![id] = v]
    /\ UNCHANGED <<loaded, pending, flash, rows, clipboard, pc, cur, polls,
                   observed, lookup, copied>>
    /\ UNCHANGED httpVars

\* the page shows a status message
PageFlashes(v) ==
    /\ loaded /\ pending
    /\ flash' = v
    /\ UNCHANGED <<loaded, dom, pending, rows, clipboard, pc, cur, polls,
                   observed, lookup, copied>>
    /\ UNCHANGED httpVars

\* the page renders the search results
PageRenders(t) ==
    /\ loaded /\ pending
    /\ rows' = t
    /\ UNCHANGED <<loaded, dom, pending, flash, clipboard, pc, cur, polls,
                   observed, lookup, copied>>
    /\ UNCHANGED httpVars

\* the asynchronous work of the page is over
PageSettles ==
    /\ loaded /\ pending
    /\ pending' = FALSE
    /\ UNCHANGED <<loaded, dom, flash, rows, clipboard, pc, cur, polls,
                   observed, lookup, copied>>
    /\ UNCHANGED httpVars

\* the next scenario: a fresh context layer (no clipboard), the same browser
NextScenario ==
    /\ pc \in {"ready", "failed"}
    /\ cur.op # "none"
    /\ pc' = "ready"
    /\ cur' = NoStep
    /\ clipboard' = None
    /\ copied' = None
    /\ polls' = 0
    /\ observed' = NotRead
    /\ lookup' = <<>>
    /\ UNCHANGED <<loaded, dom, pending, flash, rows>>
    /\ UNCHANGED httpVars

-----------------------------------------------------------------------------
(* The HTTP suite: TestProductRoutes run against the /products resource *)

MaxProducts == 2     \* identifiers the database hands out
MaxReqs     == 4     \* requests issued by the body of one test case

ProductNames == {"Hat", "hat"}
QueryNames   == ProductNames \cup {"NonExistentName"}
Tokens       == {"true", "false", "maybe"}
Product(id, name, available) == [id |-> id, name |-> name, available |-> available]

HTTP_200_OK         == 200
HTTP_201_CREATED    == 201
HTTP_204_NO_CONTENT == 204
HTTP_400_BAD_REQUEST == 400
HTTP_404_NOT_FOUND  == 404

\* a response: status, the products of its JSON payload, and for an error
\* payload its message (a sequence of words); id and q repeat the request's
\* path id and query value
Response(op, status, body) ==
    [op |-> op, status |-> status, body |-> body, kind |-> "data",
     id |-> -1, q |-> "", message |-> <<>>]
ErrorResponse(op, status, message) ==
    [op |-> op, status |-> status, body |-> {}, kind |-> "error",
     id |-> -1, q |-> "", message |-> message]
NoResponse == Response("none", 0, {})

NoHistory == [made |-> {}, gone |-> {}, hit |-> FALSE]

\* the requests the body of each test case issues
TestCases == {"test_list_no_products", "test_list_all_products",
              "test_delete_product", "test_delete_product_not_found",
              "test_list_products_by_name", "test_list_products_by_availability"}
Issues == [test_list_no_products  |-> {"list"},
           test_list_all_products |-> {"post", "list"},
           test_delete_product    |-> {"post", "list", "delete", "get"},
           test_delete_product_not_found |-> {"delete"},
           test_list_products_by_name |-> {"post", "by_name"},
           test_list_products_by_availability |-> {"post", "by_available"}]

\* db.session.query(Product).delete(); db.session.commit()
DeleteNothing(products) == products
DeleteAllProducts(products) == {}

\* setUp: runs before each test
SetUp(t) ==
    /\ tphase = "idle"
    /\ tphase' = "body"
    /\ tname' = t
    /\ reqs' = 0
    /\ resp' = NoResponse
    /\ swept' = Cardinality(store)
    /\ hist' = NoHistory
    /\ store' = DeleteAllProducts(store)
    /\ UNCHANGED nextId
    /\ UNCHANGED uiVars

\* tearDown: db.session.remove(); also reached when an assertion of the body fails
TearDown ==
    /\ tphase = "body"
    /\ tphase' = "idle"
    /\ UNCHANGED <<store, nextId, tname, reqs, resp, swept, hist>>
    /\ UNCHANGED uiVars

Request(op) ==
    /\ tphase = "body"
    /\ op \in Issues[tname]
    /\ reqs < MaxReqs
    /\ reqs' = reqs + 1
    /\ UNCHANGED <<tphase, tname, swept>>
    /\ UNCHANGED uiVars

\* self.client.post(BASE_URL, json=test_product.serialize())
PostProduct(name, available) ==
    /\ Request("post")
    /\ nextId <= MaxProducts
    /\ store' = store \cup {Product(nextId, name, available)}
    /\ nextId' = nextId + 1
    /\ resp' = Response("post", HTTP_201_CREATED, {Product(nextId, name, available)})
    /\ hist' = [hist EXCEPT !.made = @ \cup {Product(nextId, name, available)},
                            !.hit = FALSE]

\* self.client.get(BASE_URL)
ListProducts ==
    /\ Request("list")
    /\ resp' = Response("list", HTTP_200_OK, store)
    /\ hist' = [hist EXCEPT !.hit = FALSE]
    /\ UNCHANGED <<store, nextId>>

NotFoundMessage == <<"was", "not", "found">>

\* self.client.get(f"{BASE_URL}/{test_product.id}")
GetProduct(id) ==
    /\ Request("get")
    /\ resp' = IF \E p \in store : p.id = id
                 THEN [Response("get", HTTP_200_OK, {p \in store : p.id = id})
                          EXCEPT !.id = id]
                 ELSE [ErrorResponse("get", HTTP_404_NOT_FOUND, NotFoundMessage)
                          EXCEPT !.id = id]
    /\ hist' = [hist EXCEPT !.hit = \E p \in store : p.id = id]
    /\ UNCHANGED <<store, nextId>>

\* a DELETE that answers 404 for an id that is not stored
DeleteProductOrNotFound(id) ==
    /\ Request("delete")
    /\ store' = {p \in store : p.id # id}
    /\ resp' = IF \E p \in store : p.id = id
                 THEN [Response("delete", HTTP_204_NO_CONTENT, {}) EXCEPT !.id = id]
                 ELSE [ErrorResponse("delete", HTTP_404_NOT_FOUND, NotFoundMessage)
                          EXCEPT !.id = id]
    /\ hist' = [hist EXCEPT !.hit = \E p \in store : p.id = id,
                            !.gone = IF \E p \in store : p.id = id
                                       THEN @ \cup {id} ELSE @]
    /\ UNCHANGED nextId

\* a DELETE that answers 204 and removes nothing
DeleteProductKeeps(id) ==
    /\ Request("delete")
    /\ store' = store
    /\ resp' = [Response("delete", HTTP_204_NO_CONTENT, {}) EXCEPT !.id = id]
    /\ hist' = [hist EXCEPT !.hit = \E p \in store : p.id = id,
                            !.gone = IF \E p \in store : p.id = id
                                       THEN @ \cup {id} ELSE @]
    /\ UNCHANGED nextId

\* self.client.delete(f"{BASE_URL}/{test_product.id}"): the product is
\* removed if it is stored; the answer is 204 with no content either way
DeleteProduct(id) ==
    /\ Request("delete")
    /\ store' = {p \in store : p.id # id}
    /\ resp' = [Response("delete", HTTP_204_NO_CONTENT, {}) EXCEPT !.id = id]
    /\ hist' = [hist EXCEPT !.hit = \E p \in store : p.id = id,
                            !.gone = IF \E p \in store : p.id = id
                                       THEN @ \cup {id} ELSE @]
    /\ UNCHANGED nextId

\* a name filter that ignores case
FoldName == [Hat |-> "hat", hat |-> "hat", NonExistentName |-> "nonexistentname"]
NameMatchesAnyCase(name, q) == FoldName[name] = FoldName[q]

\* the name filter: exact, case-sensitive
NameMatches(name, q) == name = q

\* self.client.get(BASE_URL, query_string=f"name={test_name}")
ListByName(q) ==
    /\ Request("by_name")
    /\ resp' = [Response("by_name", HTTP_200_OK, {p \in store : NameMatches(p.name, q)})
                   EXCEPT !.q = q]
    /\ hist' = [hist EXCEPT !.hit = FALSE]
    /\ UNCHANGED <<store, nextId>>

\* a parse that takes every token other than "true" for false
ParseBoolLenient(token) == IF token = "true" THEN {TRUE} ELSE {FALSE}

\* the availability flag of the query string: the booleans it parses to
ParseBool(token) ==
    IF token = "true" THEN {TRUE} ELSE IF token = "false" THEN {FALSE} ELSE {}

InvalidAvailable == <<"Invalid", "boolean", "value", "for", "available">>

\* self.client.get(BASE_URL, query_string="available=maybe")
ListByAvailability(token) ==
    /\ Request("by_available")
    /\ resp' = IF ParseBool(token) = {}
                 THEN [ErrorResponse("by_available", HTTP_400_BAD_REQUEST,
                                     InvalidAvailable \o <<":", token>>)
                          EXCEPT !.q = token]
                 ELSE [Response("by_available", HTTP_200_OK,
                                {p \in store : p.available \in ParseBool(token)})
                          EXCEPT !.q = token]
    /\ hist' = [hist EXCEPT !.hit = FALSE]
    /\ UNCHANGED <<store, nextId>>

-----------------------------------------------------------------------------
(* Specifications *)

InitUI ==
    /\ loaded = FALSE
    /\ dom = [id \in FieldIds |-> <<>>]
    /\ pending = FALSE
    /\ flash = <<>>
    /\ rows = <<>>
    /\ clipboard = None
    /\ pc = "ready"
    /\ cur = NoStep
    /\ polls = 0
    /\ observed = NotRead
    /\ lookup = <<>>
    /\ copied = None

InitHttp ==
    /\ store = {}
    /\ nextId = 1
    /\ tphase = "idle"
    /\ tname = "test_list_no_products"
    /\ reqs = 0
    /\ resp = NoResponse
    /\ swept = 0
    /\ hist = NoHistory

Init == InitUI /\ InitHttp

\* the steps that address a form field or a button, and the waits
FormSteps(names, buttons, texts) ==
    \/ Visit
    \/ \E n \in names, t \in texts : SetField(n, t)
    \/ \E n \in names, t \in OptionTexts : SelectOption(t, n)
    \/ \E n \in names, t \in OptionTexts : SeeDropdown(t, n)
    \/ \E n \in names : FieldEmpty(n)
    \/ \E n \in names : StartCopy(n)
    \/ PollCopy
    \/ \E n \in names : StartPaste(n)
    \/ PollPaste
    \/ \E b \in buttons : Press(b)
    \/ \E n \in names, t \in texts : StartSeeField(t, n)
    \/ PollSeeField
    \/ \E n \in names, t \in texts : StartChange(n, t)
    \/ PollChange

PageSteps ==
    \/ \E id \in InputIds, v \in Values : PageSetsField(id, v)
    \/ PageSettles
    \/ NextScenario

\* a scenario on the form of the page
Next ==
    \/ FormSteps(ScenarioNames, ScenarioButtons, Values)
    \/ PageSteps

Spec == Init /\ [][Next]_vars

\* the naming conventions: every field name and button label, one text
NextIds ==
    \/ FormSteps(AllNames, AllNames, {<<"x">>})
    \/ PageSettles
    \/ NextScenario

SpecIds == Init /\ [][NextIds]_vars

\* the steps on the results table, for every table the page may show
InitTable ==
    /\ loaded = TRUE
    /\ dom = [id \in FieldIds |-> <<>>]
    /\ pending = FALSE
    /\ flash = <<>>
    /\ rows \in Tables
    /\ clipboard = None
    /\ pc = "ready"
    /\ cur = NoStep
    /\ polls = 0
    /\ observed = NotRead
    /\ lookup = <<>>
    /\ copied = None
    /\ InitHttp

NextTable ==
    \/ \E v \in CellValues, f \in FieldNames, r \in RowNums : SeeCell(v, f, r)
    \/ \E n \in RowCounts : SeeRowCount(<<"P">>, n)
    \/ NextScenario

SpecTable == InitTable /\ [][NextTable]_vars

\* the bounded waits, with the page working behind them; the step in
\* progress keeps running, so each poll of its wait is eventually taken
WaitNames == {<<"A">>, <<" ">>}
WaitTexts == {<<>>, <<"x">>}

NextWait ==
    \/ Visit
    \/ \E b \in ScenarioButtons : Press(b)
    \/ \E n \in WaitNames : StartCopy(n)
    \/ PollCopy
    \/ \E n \in WaitNames : StartPaste(n)
    \/ PollPaste
    \/ \E n \in WaitNames, t \in WaitTexts : StartSeeField(t, n)
    \/ PollSeeField
    \/ \E n \in WaitNames, t \in WaitTexts : StartChange(n, t)
    \/ PollChange
    \/ \E t \in WaitTexts : StartSeeMessage(t)
    \/ PollSeeMessage
    \/ \E t \in {<<"a">>, <<"x">>} : StartSeeResults(t)
    \/ PollSeeResults
    \/ \E id \in InputIds, v \in WaitTexts : PageSetsField(id, v)
    \/ \E t \in WaitTexts : PageFlashes(t)
    \/ \E t \in ScenarioTables : PageRenders(t)
    \/ PageSettles
    \/ NextScenario

Polling == PollCopy \/ PollPaste \/ PollSeeField \/ PollChange
             \/ PollSeeMessage \/ PollSeeResults

SpecWait == Init /\ [][NextWait]_vars /\ WF_vars(Polling)

\* the HTTP suite
NextHttp ==
    \/ \E t \in TestCases : SetUp(t)
    \/ TearDown
    \/ \E n \in ProductNames, a \in BOOLEAN : PostProduct(n, a)
    \/ ListProducts
    \/ \E id \in 0..MaxProducts : GetProduct(id)
    \/ \E id \in 0..MaxProducts : DeleteProduct(id)
    \/ \E q \in QueryNames : ListByName(q)
    \/ \E t \in Tokens : ListByAvailability(t)

SpecHttp == Init /\ [][NextHttp]_vars

-----------------------------------------------------------------------------
(* Properties *)

\* the last step was of kind op and ran to its end without raising
Passed(op) == cur.op = op /\ pc = "ready"

\* C1 as stated: the 'assert field value' step passes only when the value a
\* poll read equals the expected text; a value that merely contains the text
\* never lets it pass.
C1_PassOnlyOnEqualValue ==
    Passed("see") => (observed.found /\ observed.text = cur.arg)

\* C1 amended: every poll of the 'assert field value' step ends the wait with a
\* pass exactly when the element exists and its value contains the expected
\* text as a substring (equality included); the step fails only by timeout,
\* after WaitPolls + 1 polls none of which read a value containing the text.
C1_PassIffValueContains ==
    cur.op = "see" =>
        LET hit == observed.found /\ Contains(cur.arg, observed.text) IN
        /\ pc = "ready" => hit
        /\ (pc = "waiting" /\ observed.read) => (~hit /\ polls <= WaitPolls)
        /\ pc = "failed" => (~hit /\ observed.read /\ polls = WaitPolls + 1)

\* the step passed on a value of which the expected text is a proper substring
C1_Witness ==
    /\ Passed("see")
    /\ cur.arg # <<>>
    /\ observed.found
    /\ observed.text # cur.arg
    /\ Len(observed.text) > Len(cur.arg)

\* the header test and the number of data rows, read off the table
FirstRowHasID == Len(rows) >= 1 /\ Contains(<<"I", "D">>, RowText(rows[1]))
NumDataRows   == IF FirstRowHasID THEN Len(rows) - 1 ELSE Len(rows)
HeaderOffset  == IF FirstRowHasID THEN 1 ELSE 0

\* C2: the 'assert cell value' step fails for every row number outside
\* 1..N (N data rows), fails for a row with no cell at the mapped column, and
\* never compares against a row other than the row_num-th data row.
C2_OutOfRangeRowFails ==
    cur.op = "cell" =>
        /\ cur.n \notin 1..NumDataRows => pc = "failed"
        /\ (/\ cur.n \in 1..NumDataRows
            /\ cur.col \in DOMAIN ColumnMap
            /\ Len(TdCells(rows[cur.n + HeaderOffset])) <= ColumnMap[cur.col])
           => pc = "failed"
        /\ observed.read => observed.row = cur.n + HeaderOffset

\* s is t with blanks removed at both ends
IsStripOf(s, t) ==
    /\ s = <<>> \/ (s[1] # " " /\ s[Len(s)] # " ")
    /\ \E i \in 0..Len(t) :
          /\ i + Len(s) <= Len(t)
          /\ SubSeq(t, i + 1, i + Len(s)) = s
          /\ \A k \in (1..i) \cup ((i + Len(s) + 1)..Len(t)) : t[k] = " "

\* C3: when the 'assert cell value' step reaches its comparison, the text
\* compared is the cell's text without outer blanks, and the step passes iff:
\* for Price both texts parse to the same number ("19.90" matches "19.9"), for
\* Available they are equal ignoring letter case ("True" matches "true"), for
\* every other mapped field they are exactly equal.
C3_FieldSpecificComparison ==
    (cur.op = "cell" /\ observed.read) =>
        LET cell == observed.text
            want == cur.arg
            raw  == rows[observed.row].cells[ColumnMap[cur.col] + 1]
        IN  /\ IsStripOf(cell, raw)
            /\ cur.col = "Price" =>
                  (pc = "ready" <=> /\ ParseFloat(cell).ok
                                    /\ ParseFloat(want).ok
                                    /\ ParseFloat(cell).v = ParseFloat(want).v)
            /\ cur.col = "Available" =>
                  (pc = "ready" <=> Lower(cell) = Lower(want))
            /\ cur.col \in {"Id", "Name", "Description", "Category"} =>
                  (pc = "ready" <=> cell = want)
            /\ (cur.col = "Price" /\ cell = S_19_90 /\ want = S_19_9) => pc = "ready"
            /\ (cur.col = "Price" /\ cell = <<"5">> /\ want = S_19_9) => pc = "failed"
            /\ (cur.col = "Available" /\ cell = S_True /\ want = S_true) => pc = "ready"
            /\ (cur.col = "Name" /\ cell = <<"a">> /\ want = <<"A">>) => pc = "failed"

\* the Price cell "19.90" was accepted for the expected value "19.9"
C3_Witness ==
    /\ Passed("cell")
    /\ cur.col = "Price"
    /\ observed.text = S_19_90
    /\ cur.arg = S_19_9

\* C4: the 'assert row count' step passes iff the expected count is R - 1
\* when there are R >= 1 rows and the first row's text contains "ID", and R
\* otherwise; later rows containing "ID" are counted.
C4_RowCountExcludesOnlyHeader ==
    cur.op = "count" =>
        (pc = "ready" <=>
            cur.n = IF Len(rows) >= 1 /\ Contains(<<"I", "D">>, RowText(rows[1]))
                      THEN Len(rows) - 1
                      ELSE Len(rows))

\* a header and a later row that also contains "ID": one row is counted
C4_Witness ==
    /\ Passed("count")
    /\ rows = <<HeaderRow, RowShort>>
    /\ cur.n = 1

\* the steps that address a form field
FieldOps == {"set", "select", "dropdown", "empty", "copy", "paste", "see", "change"}

\* C5: every field-addressing step looks up "product_" followed by the field
\* name with each letter lower-cased and each space replaced by an underscore.
C5_FieldIdentifier ==
    cur.op \in FieldOps =>
        /\ Len(lookup) = 8 + Len(cur.name)
        /\ SubSeq(lookup, 1, 8) = <<"p", "r", "o", "d", "u", "c", "t", "_">>
        /\ \A i \in 1..Len(cur.name) :
              lookup[8 + i] = CASE cur.name[i] = " " -> "_"
                                [] cur.name[i] = "A" -> "a"
                                [] OTHER -> cur.name[i]

\* a paste step addressed product_a_ for a name with a capital and a space
C5_Witness ==
    /\ cur.op = "paste"
    /\ cur.name = <<"A", " ">>
    /\ lookup = <<"p", "r", "o", "d", "u", "c", "t", "_", "a", "_">>
    /\ pc = "ready"

\* C6: the 'press button' step activates the element whose identifier is the
\* label lower-cased, spaces replaced by underscores, followed by "-btn", with
\* no prefix.
C6_ButtonIdentifier ==
    cur.op = "press" =>
        /\ Len(lookup) = Len(cur.name) + 4
        /\ SubSeq(lookup, Len(cur.name) + 1, Len(cur.name) + 4) = <<"-", "b", "t", "n">>
        /\ \A i \in 1..Len(cur.name) :
              lookup[i] = CASE cur.name[i] = " " -> "_"
                            [] cur.name[i] = "A" -> "a"
                            [] OTHER -> cur.name[i]

\* the button a-btn was pressed through the label "A"
C6_Witness ==
    /\ Passed("press")
    /\ cur.name = <<"A">>
    /\ lookup = <<"a", "-", "b", "t", "n">>
    /\ pending


\* C7: a 'set field value' or 'change field value' step that finds its
\* element leaves the field holding exactly the text it wrote, whatever the
\* field held before; the 'assert field value' condition for that text then
\* holds and, when the text is empty, the 'assert field empty' test holds.
C7_SetThenReadRoundTrip ==
    [][/\ \A n \in ScenarioNames, v \in Values :
            (SetField(n, v) /\ pc' = "ready") =>
                /\ dom'[ElementId(n)] = v
                /\ TextToBePresentInElementValue(ElementId(n), v)'
                /\ v = <<>> => (GetValue(ElementId(n)) = <<>>)'
       /\ (PollChange /\ pc' = "ready") =>
                /\ dom'[lookup] = cur.arg
                /\ TextToBePresentInElementValue(lookup, cur.arg)'
                /\ cur.arg = <<>> => (GetValue(lookup) = <<>>)'
      ]_vars

\* a set step wrote a non-empty text and the field holds exactly that text
C7_Witness ==
    /\ Passed("set")
    /\ cur.arg = <<"x">>
    /\ dom[lookup] = <<"x">>
    /\ \E id \in InputIds \ {lookup} : dom[id] = <<"x", "x">>

\* C8: the scratch register always holds the value the most recent copy step
\* read from its field, and a paste step that runs to its end leaves its field
\* holding exactly that value, whatever the field held before and whatever
\* happened to the copied field since.
C8_PasteWritesCopiedValue ==
    /\ [](clipboard = copied)
    /\ [][(PollCopy /\ pc' = "ready") => clipboard' = Some(dom[ElementId(cur.name)])]_vars
    /\ [][(PollPaste /\ pc' = "ready") =>
            (copied # None /\ dom'[ElementId(cur.name)] = copied[1])]_vars

\* a paste wrote the copied value into a field while the other input, copied
\* from or not, now holds something else
C8_Witness ==
    /\ Passed("paste")
    /\ copied = Some(<<"x">>)
    /\ dom[lookup] = <<"x">>
    /\ \E id \in InputIds \ {lookup} : dom[id] = <<"x", "x">>

\* the steps that wait
WaitOps == {"copy", "paste", "see", "change", "message", "results"}

\* C9: a step with a bounded wait polls at most WaitPolls + 1 times and then
\* is over: it proceeds on a poll that observes its condition, or fails by
\* timeout; it never waits forever.  A step starts only when no other step is
\* in progress and the scenario has not failed.
C9_WaitsTerminate ==
    /\ [](pc = "waiting" => (cur.op \in WaitOps /\ polls <= WaitPolls))
    /\ [](polls <= WaitPolls + 1)
    /\ [][(pc = "waiting" /\ pc' = "failed" /\ polls' # 0) => polls' = WaitPolls + 1]_vars
    /\ (pc = "waiting") ~> (pc # "waiting")
    /\ [][(cur' # cur /\ cur'.op # "none") => pc = "ready"]_vars
    /\ [][pc = "failed" => (pc' = "failed" \/ cur'.op = "none")]_vars

\* a wait on the results container ran out of time
C9_Witness ==
    /\ cur.op = "results"
    /\ pc = "failed"
    /\ polls = WaitPolls + 1
    /\ loaded

\* C10: when the body of a test case starts the store is empty, whatever the
\* earlier test cases left in it, and a listing issued as the first request of
\* a test case returns 200 with an empty array.
C10_StoreEmptyAtTestStart ==
    /\ (tphase = "body" /\ reqs = 0) => store = {}
    /\ (reqs = 1 /\ resp.op = "list") => (resp.status = 200 /\ resp.body = {})

\* setUp removed products left behind, and the first listing came back empty
C10_Witness ==
    /\ tphase = "body"
    /\ swept > 0
    /\ reqs = 1
    /\ resp.op = "list"
    /\ resp.body = {}
    /\ tname = "test_list_no_products"

\* C11: a DELETE of an id that identifies no stored product - one never
\* created, or one already deleted - answers 204 with no content and not an
\* error, so a repeated DELETE gives the same status as the first; the id is
\* not stored afterwards.
C11_DeleteMissingSucceeds ==
    resp.op = "delete" =>
        /\ resp.status = 204
        /\ resp.kind = "data"
        /\ resp.body = {}
        /\ ~ \E p \in store : p.id = resp.id

\* a second DELETE of a product that the first DELETE removed
C11_Witness ==
    /\ resp.op = "delete"
    /\ ~ hist.hit
    /\ resp.id \in hist.gone
    /\ resp.status = 204
    /\ store # {}

\* C12: the products stored are the ones the test body created less the ones
\* it deleted, and the unfiltered listing returns exactly those (n after n
\* creations, one fewer after each DELETE of a stored product); such a DELETE
\* answers 204 with an empty body and a later GET of that id answers 404.
C12_CreateListDelete ==
    /\ store = {p \in hist.made : p.id \notin hist.gone}
    /\ Cardinality(store) = Cardinality(hist.made) - Cardinality(hist.gone)
    /\ resp.op = "list" =>
          /\ resp.status = 200
          /\ resp.body = store
          /\ Cardinality(resp.body) = Cardinality(hist.made) - Cardinality(hist.gone)
    /\ (resp.op = "delete" /\ hist.hit) =>
          /\ resp.status = 204
          /\ resp.body = {}
          /\ resp.id \in hist.gone
    /\ (resp.op = "get" /\ resp.id \in hist.gone) =>
          /\ resp.status = 404
          /\ resp.body = {}

\* two products created, one deleted, and a GET of the deleted id answered 404
C12_Witness ==
    /\ resp.op = "get"
    /\ resp.id \in hist.gone
    /\ resp.status = 404
    /\ Cardinality(hist.made) = 2
    /\ Cardinality(store) = 1

\* C13: a listing filtered by name answers 200 with exactly the stored
\* products whose name equals the query value, case included: as many items
\* as products of that name, each named as asked, none when no product has
\* the name.
C13_NameFilterExact ==
    resp.op = "by_name" =>
        /\ resp.status = 200
        /\ resp.kind = "data"
        /\ resp.body \subseteq store
        /\ \A p \in store : p \in resp.body <=> p.name = resp.q
        /\ Cardinality(resp.body) = Cardinality({p \in store : p.name = resp.q})
        /\ (~ \E p \in store : p.name = resp.q) => resp.body = {}

\* "Hat" and "hat" are both stored and the listing for "hat" has one item
C13_Witness ==
    /\ resp.op = "by_name"
    /\ resp.q = "hat"
    /\ \E p \in store : p.name = "Hat"
    /\ \E p \in store : p.name = "hat"
    /\ Cardinality(resp.body) = 1

\* C14: a listing filtered by availability with a token that is not a boolean
\* answers 400 with a message containing "Invalid boolean value for
\* available" and no product list; with "true" or "false" it answers 200 with
\* exactly the stored products whose available flag is that boolean.
C14_AvailabilityFilter ==
    resp.op = "by_available" =>
        IF resp.q \in {"true", "false"}
        THEN /\ resp.status = 200
             /\ resp.kind = "data"
             /\ resp.body = {p \in store : p.available = (resp.q = "true")}
        ELSE /\ resp.status = 400
             /\ resp.kind = "error"
             /\ resp.body = {}
             /\ Contains(<<"Invalid", "boolean", "value", "for", "available">>,
                         resp.message)

\* "maybe" was refused although products are stored
C14_Witness ==
    /\ resp.op = "by_available"
    /\ resp.q = "maybe"
    /\ resp.status = 400
    /\ store # {}

\* C15: the row-count step and the cell step classify the header row alike
\* for every table: the count the row-count step accepts is the number of
\* data rows of the cell step, so the cell step locates its row for every row
\* number from 1 to that count and fails for every row number above it, and
\* data row k is the (k+1)-th tr when the first row's text contains "ID" and
\* the k-th tr otherwise.
C15_HeaderClassifiedAlike ==
    /\ ActualRows(rows) = Len(DataRows(rows))
    /\ (cur.op = "count" /\ loaded) =>
          (pc = "ready" <=> cur.n = Len(DataRows(rows)))
    /\ (cur.op = "cell" /\ loaded /\ cur.col \in DOMAIN ColumnMap) =>
          /\ cur.n \in 1..ActualRows(rows) =>
                /\ observed.found
                /\ observed.row = cur.n + HeaderOffset
          /\ cur.n > ActualRows(rows) =>
                /\ ~ observed.found
                /\ pc = "failed"

\* under a header, the last data row was located one tr further down
C15_Witness ==
    /\ cur.op = "cell"
    /\ FirstRowHasID
    /\ Len(rows) = MaxRows
    /\ cur.n = Len(rows) - 1
    /\ observed.found
    /\ observed.row = Len(rows)

\* C16: a 'paste field' step run while the scenario's clipboard is unset
\* never passes; once the target text field is present the step fails at
\* that poll and leaves the field empty, the other fields as they were; while
\* the target is absent no field is modified and the step fails only when
\* the wait runs out.
C16_PasteWithoutCopy ==
    [][(PollPaste /\ clipboard = None) =>
          /\ pc' # "ready"
          /\ clipboard' = None
          /\ (PresenceOfElementLocated(lookup) /\ lookup \in InputIds) =>
                /\ pc' = "failed"
                /\ dom' = [dom EXCEPT ![lookup] = <<>>]
          /\ ~ PresenceOfElementLocated(lookup) =>
                /\ dom' = dom
                /\ pc' = "failed" <=> polls' > WaitPolls]_vars

\* a paste with nothing copied failed on a present text field, now empty
C16_Witness ==
    /\ cur.op = "paste"
    /\ pc = "failed"
    /\ polls = 0
    /\ clipboard = None
    /\ copied = None
    /\ lookup \in InputIds
    /\ loaded
    /\ dom[lookup] = <<>>
    /\ \E id \in InputIds \ {lookup} : dom[id] # <<>>

=============================================================================
